---- MODULE Spec2Model ----
(***************************************************************************)
(* Model of src/src/scripts/example.js: the audio element pool             *)
(* (initializeAudioPool, cleanupAudioElement, getAudioFromPool, playSound, *)
(* cleanupAudioResources) and the microphone device flow                   *)
(* (initializeWebRTCDevices, testAudioDevice, validateOrSelectDevice,      *)
(* updateDeviceList, selectAudioDevice).                                   *)
(*                                                                         *)
(* The script runs on the browser's event loop: every action below is one  *)
(* task (an event handler or a promise continuation run to its next        *)
(* suspension point) or one microtask (a promise reaction).                *)
(***************************************************************************)
EXTENDS Integers, Sequences, FiniteSets, TLC

(***************************************************************************)
(* Bounds of the model.                                                    *)
(***************************************************************************)
\* Number of audio elements created by initializeAudioPool. The script sets
\* MAX_AUDIO_POOL_SIZE = 15 (line 11); the model runs a smaller pool.
MAX_AUDIO_POOL_SIZE == 2
\* Audio elements that can be created after the pool was emptied.
ExtraEls == 1
\* Number of clock steps.
MaxTicks == 7

(***************************************************************************)
(* Program constants.                                                      *)
(***************************************************************************)
\* null / undefined (falsy) for start times and timer handles
NULL == 0
\* getAudioFromPool: "started playing more than 5 seconds ago"
StaleMs == 5000
\* playSound: "Safety timeout to release after 30 seconds"
SafetyMs == 30000
\* Date.now() when the page loads (any positive value)
T0 == 1000
\* SOUNDS (one of the four asset paths; the path does not steer the pool)
SOUNDS == {"/sounds/ring.mp3"}

\* The clock advances in steps of the staleness threshold, so that an element
\* can be exactly at the threshold (not stale) or beyond it (stale).
TickMs == StaleMs
MaxEls == MAX_AUDIO_POOL_SIZE + ExtraEls
MaxNow == T0 + MaxTicks * TickMs
ElIds  == 1..MaxEls

VARIABLES
    now,        \* Date.now()
    els,        \* the Audio objects ever created: id -> fields
    nEls,       \* how many Audio objects were created
    audioPool,  \* let audioPool = []: sequence of Audio object ids
    timers,     \* armed setTimeout timers: [id, el, due]
    microtasks, \* queued promise reactions: playPromise.catch callbacks, by element
    last        \* what the step just taken did (NoCall if nothing to record)

poolVars == <<now, els, nEls, audioPool, timers, microtasks, last>>

\* the microphone device flow
VARIABLES
    supported,                   \* navigator.mediaDevices && getUserMedia exist
    devices,                     \* the input devices currently attached
    selectedAudioDeviceId,       \* line 14
    deviceAccessGranted,         \* line 15
    selectedAudioInputDeviceId,  \* implicit global of lines 454, 520
    ops,                         \* the operations started so far, in start order
    lastWrite,                   \* the latest assignment to selectedAudioDeviceId
    doneSeq                      \* the operations in the order they completed

devVars == <<supported, devices, selectedAudioDeviceId, deviceAccessGranted,
             selectedAudioInputDeviceId, ops, lastWrite, doneSeq>>

vars == <<poolVars, devVars>>

\* new Audio(): nothing set by the script yet (inUse, startTime, safetyTimeout
\* are undefined, hence falsy); a fresh media element is paused, has no source.
NewAudio ==
    [inUse |-> FALSE, startTime |-> NULL, safetyTimeout |-> NULL,
     onended |-> FALSE, onerror |-> FALSE, src |-> "",
     paused |-> TRUE, ended |-> FALSE, promise |-> "none"]

Min(S) == CHOOSE x \in S : \A y \in S : x <= y

\* Array.prototype.find over the pool: first element in pool order with P.
Find(pool, P(_)) ==
    LET idx == {i \in 1..Len(pool) : P(pool[i])}
    IN  IF idx = {} THEN NULL ELSE pool[Min(idx)]

\* setTimeout returns a handle that no live timer and no stored handle uses.
FreshTimerId(h) ==
    Min((1..(MaxEls + 1)) \
        ({t.id : t \in h.timers} \cup {h.els[e].safetyTimeout : e \in ElIds}))

\* cleanupAudioElement without the clearTimeout of lines 65-68
cleanupKeepsTimer(h, e) ==
    LET a == h.els[e]
    IN  [els    |-> [h.els EXCEPT ![e] =
                        [inUse |-> FALSE, startTime |-> NULL, safetyTimeout |-> NULL,
                         onended |-> FALSE, onerror |-> FALSE, src |-> "",
                         paused |-> TRUE, ended |-> FALSE, promise |-> "none"]],
         timers |-> h.timers,
         micro  |-> IF a.promise = "pending" THEN Append(h.micro, e) ELSE h.micro]

(***************************************************************************)
(* cleanupAudioElement(audio), lines 61-80.  h = [els, timers, micro].     *)
(* pause() and src = '' settle a still-pending play() promise with an      *)
(* AbortError: its catch callback is queued as a microtask.                *)
(***************************************************************************)
cleanupAudioElement(h, e) ==
    LET a == h.els[e]
    IN  [els    |-> [h.els EXCEPT ![e] =
                        [inUse |-> FALSE, startTime |-> NULL, safetyTimeout |-> NULL,
                         onended |-> FALSE, onerror |-> FALSE, src |-> "",
                         paused |-> TRUE, ended |-> FALSE, promise |-> "none"]],
         timers |-> IF a.safetyTimeout # NULL
                    THEN {t \in h.timers : t.id # a.safetyTimeout}
                    ELSE h.timers,
         micro  |-> IF a.promise = "pending" THEN Append(h.micro, e) ELSE h.micro]

\* a release that leaves the start time of the play behind
releaseLeavesStartTime(h, e) ==
    LET c == cleanupAudioElement(h, e)
    IN  [c EXCEPT !.els[e].startTime = h.els[e].startTime]

\* releaseAudioToPool(audio), lines 126-128
releaseAudioToPool(h, e) == cleanupAudioElement(h, e)

\* getAudioFromPool with the stale search (line 98) ahead of the ended/paused
\* search (line 91)
acquireStaleFirst(h, pool, n, t) ==
    LET unused == Find(pool, LAMBDA e : ~h.els[e].inUse)
        done   == Find(pool, LAMBDA e : h.els[e].ended \/ h.els[e].paused)
        stale  == Find(pool, LAMBDA e : h.els[e].startTime # NULL
                                        /\ t - h.els[e].startTime > StaleMs)
        pick   == IF unused # NULL THEN [audio |-> unused, tier |-> "unused"]
                  ELSE IF stale # NULL THEN [audio |-> stale, tier |-> "stale"]
                  ELSE IF done # NULL THEN [audio |-> done, tier |-> "done"]
                  ELSE IF Len(pool) > 0 THEN [audio |-> pool[1], tier |-> "forced"]
                  ELSE [audio |-> n + 1, tier |-> "new"]
        h1     == IF pick.tier \in {"done", "stale", "forced"}
                  THEN cleanupAudioElement(h, pick.audio)
                  ELSE h
        h2     == [h1 EXCEPT !.els[pick.audio].inUse = TRUE,
                             !.els[pick.audio].startTime = t]
    IN  [h |-> h2,
         pool |-> IF pick.tier = "new" THEN Append(pool, pick.audio) ELSE pool,
         n |-> IF pick.tier = "new" THEN n + 1 ELSE n,
         audio |-> pick.audio,
         tier |-> pick.tier]

\* getAudioFromPool that creates another element when every one is in use and
\* playing, as long as an element can be created
acquireGrows(h, pool, n, t) ==
    LET unused == Find(pool, LAMBDA e : ~h.els[e].inUse)
        done   == Find(pool, LAMBDA e : h.els[e].ended \/ h.els[e].paused)
        pick   == IF unused # NULL THEN [audio |-> unused, tier |-> "unused"]
                  ELSE IF done # NULL THEN [audio |-> done, tier |-> "done"]
                  ELSE IF n < MaxEls THEN [audio |-> n + 1, tier |-> "new"]
                  ELSE [audio |-> pool[1], tier |-> "forced"]
        h1     == IF pick.tier \in {"done", "forced"}
                  THEN cleanupAudioElement(h, pick.audio)
                  ELSE h
        h2     == [h1 EXCEPT !.els[pick.audio].inUse = TRUE,
                             !.els[pick.audio].startTime = t]
    IN  [h |-> h2,
         pool |-> IF pick.tier = "new" THEN Append(pool, pick.audio) ELSE pool,
         n |-> IF pick.tier = "new" THEN n + 1 ELSE n,
         audio |-> pick.audio,
         tier |-> pick.tier]

\* getAudioFromPool that marks the element in use (lines 118-119) only when it
\* found an unused one
acquireNoMark(h, pool, n, t) ==
    LET unused == Find(pool, LAMBDA e : ~h.els[e].inUse)
        done   == Find(pool, LAMBDA e : h.els[e].ended \/ h.els[e].paused)
        stale  == Find(pool, LAMBDA e : h.els[e].startTime # NULL
                                        /\ t - h.els[e].startTime > StaleMs)
        pick   == IF unused # NULL THEN [audio |-> unused, tier |-> "unused"]
                  ELSE IF done # NULL THEN [audio |-> done, tier |-> "done"]
                  ELSE IF stale # NULL THEN [audio |-> stale, tier |-> "stale"]
                  ELSE IF Len(pool) > 0 THEN [audio |-> pool[1], tier |-> "forced"]
                  ELSE [audio |-> n + 1, tier |-> "new"]
        h1     == IF pick.tier \in {"done", "stale", "forced"}
                  THEN cleanupAudioElement(h, pick.audio)
                  ELSE h
        h2     == IF pick.tier \in {"unused", "new"}
                  THEN [h1 EXCEPT !.els[pick.audio].inUse = TRUE,
                                  !.els[pick.audio].startTime = t]
                  ELSE h1
    IN  [h |-> h2,
         pool |-> IF pick.tier = "new" THEN Append(pool, pick.audio) ELSE pool,
         n |-> IF pick.tier = "new" THEN n + 1 ELSE n,
         audio |-> pick.audio,
         tier |-> pick.tier]

(***************************************************************************)
(* getAudioFromPool(), lines 85-121.  Returns the heap after the call, the *)
(* pool, the element count, the element returned and the branch taken.     *)
(***************************************************************************)
getAudioFromPool(h, pool, n, t) ==
    LET unused == Find(pool, LAMBDA e : ~h.els[e].inUse)
        done   == Find(pool, LAMBDA e : h.els[e].ended \/ h.els[e].paused)
        stale  == Find(pool, LAMBDA e : h.els[e].startTime # NULL
                                        /\ t - h.els[e].startTime > StaleMs)
        pick   == IF unused # NULL THEN [audio |-> unused, tier |-> "unused"]
                  ELSE IF done # NULL THEN [audio |-> done, tier |-> "done"]
                  ELSE IF stale # NULL THEN [audio |-> stale, tier |-> "stale"]
                  ELSE IF Len(pool) > 0 THEN [audio |-> pool[1], tier |-> "forced"]
                  ELSE [audio |-> n + 1, tier |-> "new"]
        h1     == IF pick.tier \in {"done", "stale", "forced"}
                  THEN cleanupAudioElement(h, pick.audio)
                  ELSE h
        h2     == [h1 EXCEPT !.els[pick.audio].inUse = TRUE,
                             !.els[pick.audio].startTime = t]
    IN  [h |-> h2,
         pool |-> IF pick.tier = "new" THEN Append(pool, pick.audio) ELSE pool,
         n |-> IF pick.tier = "new" THEN n + 1 ELSE n,
         audio |-> pick.audio,
         tier |-> pick.tier]

Heap == [els |-> els, timers |-> timers, micro |-> microtasks]

SetHeap(h) ==
    /\ els' = h.els
    /\ timers' = h.timers
    /\ microtasks' = h.micro

\* What a step records about itself in `last`: for a playSound call the branch
\* taken, the element returned, its fields as the call found them and as the
\* call left them, and what the pool offered; for a release, the element.
NoCall == [tier |-> "none", audio |-> NULL, inUse |-> FALSE,
           wasInUse |-> FALSE, wasDone |-> FALSE, wasStale |-> FALSE,
           hadUnused |-> FALSE, hadDone |-> FALSE, hadStale |-> FALSE,
           poolLen |-> 0, first |-> NULL, oldest |-> FALSE, wasIn |-> FALSE]

Released(how, e) == [NoCall EXCEPT !.tier = how, !.audio = e]

IsDone(a)     == a.ended \/ a.paused
IsStale(a, t) == a.startTime # NULL /\ t - a.startTime > StaleMs

(***************************************************************************)
(* Init: DOMContentLoaded has run initializeAudioPool (lines 40-56); the   *)
(* script's globals have their declared values (lines 10-15).  InitPool    *)
(* is the page in a browser that has no microphone attached, where only    *)
(* the pool is at work.                                                    *)
(***************************************************************************)
InitPool ==
    /\ now = T0
    /\ els = [e \in ElIds |-> NewAudio]
    /\ nEls = MAX_AUDIO_POOL_SIZE
    /\ audioPool = [i \in 1..MAX_AUDIO_POOL_SIZE |-> i]
    /\ timers = {}
    /\ microtasks = <<>>
    /\ last = NoCall
    /\ supported = TRUE
    /\ devices = <<>>
    /\ selectedAudioDeviceId = "null"
    /\ deviceAccessGranted = FALSE
    /\ selectedAudioInputDeviceId = "undeclared"
    /\ ops = <<>>
    /\ lastWrite = [op |-> 0, val |-> "null"]
    /\ doneSeq = <<>>

\* playSound that takes an element before it looks at the url
playSoundAcquiresFirst(url, allowed) ==
    /\ microtasks = <<>>
    /\ Len(audioPool) = 0 => nEls < MaxEls
    /\ LET g == getAudioFromPool(Heap, audioPool, nEls, now)
       IN  /\ SetHeap(g.h)
           /\ audioPool' = g.pool
           /\ nEls' = g.n
           /\ last' = Released("nourl", NULL)
    /\ UNCHANGED <<now, devVars>>

(***************************************************************************)
(* playSound(url), lines 133-169.  allowed: whether the browser lets the   *)
(* element start (play() otherwise returns an already rejected promise and *)
(* the element stays paused).                                              *)
(***************************************************************************)
playSound(url, allowed) ==
    /\ microtasks = <<>>
    /\ IF url = ""
       THEN /\ last' = Released("nourl", NULL)
            /\ UNCHANGED <<els, nEls, audioPool, timers, microtasks>>
       ELSE /\ Len(audioPool) = 0 => nEls < MaxEls
            /\ LET g   == getAudioFromPool(Heap, audioPool, nEls, now)
                   a   == g.audio
                   id  == FreshTimerId(g.h)
                   h1  == [g.h EXCEPT !.els[a].onended = TRUE,
                                      !.els[a].onerror = TRUE,
                                      !.els[a].safetyTimeout = id,
                                      !.els[a].src = url,
                                      !.timers = @ \cup {[id |-> id, el |-> a,
                                                          due |-> now + SafetyMs]}]
                   h2  == IF allowed
                          THEN [h1 EXCEPT !.els[a].paused = FALSE,
                                          !.els[a].promise = "pending"]
                          ELSE [h1 EXCEPT !.micro = Append(@, a)]
               IN  /\ SetHeap(h2)
                   /\ audioPool' = g.pool
                   /\ nEls' = g.n
                   /\ last' =
                        [tier |-> g.tier, audio |-> a, inUse |-> h2.els[a].inUse,
                         wasInUse |-> els[a].inUse,
                         wasDone |-> IsDone(els[a]),
                         wasStale |-> IsStale(els[a], now),
                         hadUnused |-> \E i \in 1..Len(audioPool) : ~els[audioPool[i]].inUse,
                         hadDone |-> \E i \in 1..Len(audioPool) : IsDone(els[audioPool[i]]),
                         hadStale |-> \E i \in 1..Len(audioPool) : IsStale(els[audioPool[i]], now),
                         poolLen |-> Len(audioPool),
                         first |-> IF Len(audioPool) > 0 THEN audioPool[1] ELSE NULL,
                         oldest |-> \A i \in 1..Len(audioPool) :
                                       els[a].startTime <= els[audioPool[i]].startTime,
                         wasIn |-> \E i \in 1..Len(audioPool) : audioPool[i] = a]
    /\ UNCHANGED <<now, devVars>>

\* the play() promise resolves: playback has started
PlayStarted(e) ==
    /\ microtasks = <<>>
    /\ els[e].promise = "pending"
    /\ els' = [els EXCEPT ![e].promise = "resolved"]
    /\ UNCHANGED <<now, nEls, audioPool, timers, microtasks, devVars>>
    /\ last' = NoCall

\* playback reaches the end: the element fires 'ended' (audio.onended, line 142)
Ended(e) ==
    /\ microtasks = <<>>
    /\ els[e].promise = "resolved"
    /\ ~els[e].paused
    /\ IF els[e].onended
       THEN /\ SetHeap(releaseAudioToPool(Heap, e))
            /\ last' = Released("ended", e)
       ELSE /\ els' = [els EXCEPT ![e].ended = TRUE, ![e].paused = TRUE]
            /\ last' = NoCall
            /\ UNCHANGED <<timers, microtasks>>
    /\ UNCHANGED <<now, nEls, audioPool, devVars>>

\* the resource fails to load or decode: the element fires 'error'
\* (audio.onerror, lines 143-146) and a pending play() promise is rejected
MediaError(e) ==
    /\ microtasks = <<>>
    /\ els[e].src # ""
    /\ IF els[e].onerror
       THEN /\ SetHeap(releaseAudioToPool(Heap, e))
            /\ last' = Released("error", e)
       ELSE /\ els' = [els EXCEPT ![e].promise = "none"]
            /\ microtasks' = IF els[e].promise = "pending"
                             THEN Append(microtasks, e) ELSE microtasks
            /\ last' = NoCall
            /\ UNCHANGED timers
    /\ UNCHANGED <<now, nEls, audioPool, devVars>>

\* the browser pauses a playing element (media keys, audio focus); a pending
\* play() promise is rejected with an AbortError
BrowserPause(e) ==
    /\ microtasks = <<>>
    /\ els[e].src # ""
    /\ ~els[e].paused
    /\ els' = [els EXCEPT ![e].paused = TRUE, ![e].promise = "none"]
    /\ microtasks' = IF els[e].promise = "pending"
                     THEN Append(microtasks, e) ELSE microtasks
    /\ UNCHANGED <<now, nEls, audioPool, timers, devVars>>
    /\ last' = NoCall

\* a catch callback that only logs
PlayRejectedNoRelease ==
    /\ microtasks # <<>>
    /\ LET e == Head(microtasks)
       IN  /\ SetHeap([Heap EXCEPT !.micro = Tail(@)])
           /\ last' = [Released("rejected", e) EXCEPT !.wasInUse = els[e].inUse]
    /\ UNCHANGED <<now, nEls, audioPool, devVars>>

\* playPromise.catch(error => releaseAudioToPool(audio)), lines 162-165
PlayRejected ==
    /\ microtasks # <<>>
    /\ LET e == Head(microtasks)
       IN  /\ SetHeap(releaseAudioToPool([Heap EXCEPT !.micro = Tail(@)], e))
           /\ last' = [Released("rejected", e) EXCEPT !.wasInUse = els[e].inUse]
    /\ UNCHANGED <<now, nEls, audioPool, devVars>>

\* a safety timeout callback that does not release the element
SafetyTimeoutNoRelease(t) ==
    /\ microtasks = <<>>
    /\ t \in timers
    /\ now >= t.due
    /\ SetHeap([Heap EXCEPT !.timers = @ \ {t}])
    /\ last' = NoCall
    /\ UNCHANGED <<now, nEls, audioPool, devVars>>

\* the safety timeout callback, lines 149-154
SafetyTimeout(t) ==
    /\ microtasks = <<>>
    /\ t \in timers
    /\ now >= t.due
    /\ LET h == [Heap EXCEPT !.timers = @ \ {t}]
       IN  IF els[t.el].inUse
           THEN /\ SetHeap(releaseAudioToPool(h, t.el))
                /\ last' = Released("timeout", t.el)
           ELSE /\ SetHeap(h)
                /\ last' = NoCall
    /\ UNCHANGED <<now, nEls, audioPool, devVars>>

\* a forEach that stops after the first element of the pool
cleanupFirstOnly(h, pool) ==
    IF pool = <<>> THEN h ELSE cleanupAudioElement(h, Head(pool))

\* cleanupAudioResources(), lines 174-177 (beforeunload)
RECURSIVE cleanupAll(_, _)
cleanupAll(h, pool) ==
    IF pool = <<>> THEN h
    ELSE cleanupAll(cleanupAudioElement(h, Head(pool)), Tail(pool))

cleanupAudioResources ==
    /\ microtasks = <<>>
    /\ SetHeap(cleanupAll(Heap, audioPool))
    /\ audioPool' = <<>>
    /\ last' = [Released("teardown", NULL) EXCEPT
                   !.poolLen = Len(audioPool),
                   !.wasInUse = \A i \in 1..Len(audioPool) : els[audioPool[i]].inUse]
    /\ UNCHANGED <<now, nEls, devVars>>

\* time passes
Tick ==
    /\ microtasks = <<>>
    /\ now + TickMs <= MaxNow
    /\ now' = now + TickMs
    /\ UNCHANGED <<els, nEls, audioPool, timers, microtasks, devVars>>
    /\ last' = NoCall

NextPool ==
    \/ \E url \in SOUNDS \cup {""}, allowed \in BOOLEAN : playSound(url, allowed)
    \/ \E e \in ElIds : PlayStarted(e)
    \/ \E e \in ElIds : Ended(e)
    \/ \E e \in ElIds : MediaError(e)
    \/ \E e \in ElIds : BrowserPause(e)
    \/ PlayRejected
    \/ \E t \in timers : SafetyTimeout(t)
    \/ cleanupAudioResources
    \/ Tick


(***************************************************************************)
(* The pool under the event loop's scheduling: time passes, a due timer    *)
(* fires, a queued promise reaction runs.  Tasks wait while a promise       *)
(* reaction is queued, hence strong fairness for the clock and the timers. *)
(* The clock of the model stops at MaxNow, so a sound is only started      *)
(* while its safety timer can still become due.                            *)
(***************************************************************************)
playSoundInTime(url, allowed) ==
    /\ now + SafetyMs <= MaxNow
    /\ playSound(url, allowed)

NextPoolFair ==
    \/ \E url \in SOUNDS \cup {""}, allowed \in BOOLEAN : playSoundInTime(url, allowed)
    \/ \E e \in ElIds : PlayStarted(e)
    \/ \E e \in ElIds : Ended(e)
    \/ \E e \in ElIds : MediaError(e)
    \/ \E e \in ElIds : BrowserPause(e)
    \/ PlayRejected
    \/ \E t \in timers : SafetyTimeout(t)
    \/ cleanupAudioResources
    \/ Tick


(***************************************************************************)
(* The microphone device flow.                                             *)
(*                                                                         *)
(* The script declares initializeWebRTCDevices twice (lines 182 and 411);  *)
(* the later function declaration is the one the page runs, so the first   *)
(* one and its helpers handlePermissionGranted / handlePermissionError     *)
(* (the only place that sets deviceAccessGranted) are never called.        *)
(***************************************************************************)
\* Operations (initialize, selectAudioDevice, updateDeviceList) ever started.
MaxOps == 2

\* selectedAudioDeviceId = null (line 14)
NullId == "null"
\* selectedAudioInputDeviceId is never declared: until line 454 or 520 assigns
\* it (creating a global), reading it throws a ReferenceError
Undeclared == "undeclared"
\* JavaScript truthiness of a device id
Truthy(id) == id \notin {"", NullId, Undeclared}

\* The input devices the browser can enumerate, in enumeration order.
Enumerations == {<<>>, <<"">>, <<"b">>, <<"default", "a">>, <<"a", "b">>}
DeviceIds == {"", "default", "a", "b"}
\* err.name of a rejected browser call
ErrNames == {"NotAllowedError", "NotFoundError", "NotReadableError", "OverconstrainedError"}

Range(q) == {q[i] : i \in 1..Len(q)}


\* An operation: where its promise chain is suspended (pc), the device id it was
\* asked for (req), the id under test (arg), what follows the test (cont), and
\* what it did so far: statuses sent to the widget (notifyWebRTCStatus),
\* notifications shown, streams opened, its last write of
\* selectedAudioDeviceId, whether permission was granted to it, and whether
\* another operation was in flight during its run, and how many streams it
\* received from getUserMedia have live tracks (held).
NewOp(kind, pc, req) ==
    [kind |-> kind, pc |-> pc, req |-> req, arg |-> "", cont |-> "none",
     sent |-> <<>>, shown |-> <<>>, opens |-> <<>>, wrote |-> "none",
     granted |-> FALSE, overlapped |-> FALSE, result |-> "none", held |-> 0]

InFlight(o) == \E i \in 1..Len(o) : o[i].pc # "done"

\* a settled testAudioDevice promise whose reaction (the caller's then) has not
\* run yet; reactions run before the event loop takes the next task
NoReaction == \A i \in 1..Len(ops) : ops[i].pc # "tested"

\* a new operation starts: it overlaps every operation still in flight
Start(o, op) ==
    LET busy == InFlight(o)
    IN  Append([i \in 1..Len(o) |->
                   IF o[i].pc # "done" THEN [o[i] EXCEPT !.overlapped = TRUE] ELSE o[i]],
               [op EXCEPT !.overlapped = busy])

Status(status, id) == [status |-> status, id |-> id]

\* The page in any browser: with or without navigator.mediaDevices, with any
\* of the enumerations attached.
Init ==
    /\ now = T0
    /\ els = [e \in ElIds |-> NewAudio]
    /\ nEls = MAX_AUDIO_POOL_SIZE
    /\ audioPool = [i \in 1..MAX_AUDIO_POOL_SIZE |-> i]
    /\ timers = {}
    /\ microtasks = <<>>
    /\ last = NoCall
    /\ supported \in BOOLEAN
    /\ devices \in Enumerations
    /\ selectedAudioDeviceId = NullId
    /\ deviceAccessGranted = FALSE
    /\ selectedAudioInputDeviceId = Undeclared
    /\ ops = <<>>
    /\ lastWrite = [op |-> 0, val |-> NullId]
    /\ doneSeq = <<>>

\* The state of the device flow as a record, so that a continuation can be
\* written as a function from state to state.
Dev == [sel |-> selectedAudioDeviceId, selIn |-> selectedAudioInputDeviceId,
        ops |-> ops, lastWrite |-> lastWrite, doneSeq |-> doneSeq]

SetDev(d) ==
    /\ selectedAudioDeviceId' = d.sel
    /\ selectedAudioInputDeviceId' = d.selIn
    /\ ops' = d.ops
    /\ lastWrite' = d.lastWrite
    /\ doneSeq' = d.doneSeq

\* a variant that drops the write of an operation older than the last writer
WriteNewestOnly(d, i, v) ==
    IF i < d.lastWrite.op
    THEN [d EXCEPT !.ops[i].wrote = v]
    ELSE [d EXCEPT !.sel = v, !.lastWrite = [op |-> i, val |-> v], !.ops[i].wrote = v]

\* selectedAudioDeviceId = v, by operation i
Write(d, i, v) ==
    [d EXCEPT !.sel = v, !.lastWrite = [op |-> i, val |-> v], !.ops[i].wrote = v]

\* notifyWebRTCStatus(data), lines 1063-1073
notifyWebRTCStatus(d, i, status, id) ==
    [d EXCEPT !.ops[i].sent = Append(@, Status(status, id))]

\* showDeviceErrorNotification(message, errorCode), lines 665-723
showDeviceErrorNotification(d, i, code) ==
    [d EXCEPT !.ops[i].shown = Append(@, code)]

\* a chain whose last promise never settles
FinishNever(d, i) ==
    [d EXCEPT !.ops[i].pc = "hung"]

\* the operation's promise chain has settled
Finish(d, i) ==
    [d EXCEPT !.ops[i].pc = "done", !.doneSeq = Append(@, i)]

\* the .catch of initializeWebRTCDevices, lines 559-607
initCatch(d, i, name) ==
    LET code == IF name \in {"NotAllowedError", "PermissionDeniedError"} THEN "PermissionDenied"
                ELSE IF name = "NotFoundError" THEN "DeviceNotFound"
                ELSE IF name \in {"NotReadableError", "AbortError"} THEN "DeviceBusy"
                ELSE "UnknownError"
    IN  Finish(notifyWebRTCStatus(showDeviceErrorNotification(d, i, code),
                                  i, "error", name), i)

\* testAudioDevice(deviceId), lines 321-329: the constraint and the call
testAudioDevice(d, i, deviceId, cont) ==
    [d EXCEPT !.ops[i].pc = IF Truthy(deviceId) THEN "test" ELSE "testAny",
              !.ops[i].arg = deviceId,
              !.ops[i].cont = cont]

\* validateOrSelectDevice(audioDevices), lines 300-316 (audioDevices not empty)
validateOrSelectDevice(d, i, audioDevices, cont) ==
    LET deviceExists == Truthy(d.sel) /\ d.sel \in Range(audioDevices)
        withId == {k \in 1..Len(audioDevices) :
                      Truthy(audioDevices[k]) /\ audioDevices[k] # "default"}
        pick == IF withId # {} THEN audioDevices[Min(withId)] ELSE audioDevices[1]
        d1 == IF deviceExists THEN d ELSE Write(d, i, pick)
    IN  testAudioDevice(d1, i, d1.sel, cont)

\* a then callback of selectAudioDevice that does not look at success
afterTestCommitsAlways(d, i, success) ==
    LET o == d.ops[i]
    IN  IF o.cont = "init"
        THEN IF success
             THEN Finish(notifyWebRTCStatus(d, i, "ready", d.selIn), i)
             ELSE initCatch(showDeviceErrorNotification(d, i, "MicrophoneAccessFailed"),
                            i, "Error")
        ELSE IF o.cont = "select"
        THEN Finish(notifyWebRTCStatus(Write(d, i, o.req), i, "ready", o.req), i)
        ELSE Finish(d, i)

\* a then callback of initializeWebRTCDevices that does not look at success
afterTestAlwaysReady(d, i, success) ==
    LET o == d.ops[i]
    IN  IF o.cont = "init"
        THEN Finish(notifyWebRTCStatus(d, i, "ready", d.selIn), i)
        ELSE IF o.cont = "select" /\ success
        THEN Finish(notifyWebRTCStatus(Write(d, i, o.req), i, "ready", o.req), i)
        ELSE Finish(d, i)

\* what follows a settled testAudioDevice: the then(success => ...) of
\* initializeWebRTCDevices (lines 527-557), of selectAudioDevice (lines
\* 1030-1039), or nothing (validateOrSelectDevice's result is dropped by
\* updateDeviceList line 392 and selectAudioDevice line 1042)
afterTest(d, i, success) ==
    LET o  == d.ops[i]
        d0 == d
    IN  IF o.cont = "init"
        THEN IF success
             THEN Finish(notifyWebRTCStatus(d0, i, "ready", d0.selIn), i)
             ELSE initCatch(showDeviceErrorNotification(d0, i, "MicrophoneAccessFailed"),
                            i, "Error")
        ELSE IF o.cont = "select"
        THEN IF success
             THEN Finish(notifyWebRTCStatus(Write(d0, i, o.req), i, "ready", o.req), i)
             ELSE Finish(d0, i)
        ELSE Finish(d0, i)

\* initializeWebRTCDevices without the capability check of lines 413-418
initializeNoCapabilityCheck ==
    /\ NoReaction
    /\ \/ ops = <<>>
       \/ /\ Len(ops) < MaxOps
          /\ \E i \in 1..Len(ops) : ops[i].shown # <<>>
    /\ SetDev([Dev EXCEPT !.ops = Start(ops, NewOp("init", "enum1", ""))])
    /\ UNCHANGED <<supported, devices, deviceAccessGranted, poolVars>>

(***************************************************************************)
(* initializeWebRTCDevices(), lines 411-425: the capability check and the  *)
(* first enumerateDevices call.  It runs from DOMContentLoaded (line 22),  *)
(* and again from the "retry" button of the troubleshooting guide (line    *)
(* 971), which opens from a device error notification (line 707).          *)
(***************************************************************************)
initializeWebRTCDevices ==
    /\ NoReaction
    /\ \/ ops = <<>>
       \/ /\ Len(ops) < MaxOps
          /\ \E i \in 1..Len(ops) : ops[i].shown # <<>>
    /\ IF ~supported
       THEN SetDev(Finish(showDeviceErrorNotification(
                [Dev EXCEPT !.ops = Start(ops, NewOp("init", "enum1", ""))],
                Len(ops) + 1, "BrowserNotSupported"), Len(ops) + 1))
       ELSE SetDev([Dev EXCEPT !.ops = Start(ops, NewOp("init", "enum1", ""))])
    /\ UNCHANGED <<supported, devices, deviceAccessGranted, poolVars>>

\* enumerateDevices() resolves with the devices attached at that moment;
\* outputs: whether an audio output device is among them
EnumResolve(i, outputs) ==
    /\ NoReaction
    /\ i \in 1..Len(ops)
    /\ ops[i].pc \in {"enum1", "enum2", "enum"}
    /\ LET o == ops[i]
           audioDevices == devices
       IN  CASE o.pc = "enum1" ->
                \* lines 426-444
                IF Len(audioDevices) = 0 /\ ~outputs
                THEN SetDev(initCatch(showDeviceErrorNotification(Dev, i, "NoDevicesFound"),
                                      i, "Error"))
                ELSE SetDev([Dev EXCEPT !.ops[i].pc = "gum"])
             [] o.pc = "enum2" ->
                \* lines 466-526
                IF Len(audioDevices) = 0
                THEN SetDev(initCatch(showDeviceErrorNotification(Dev, i, "NoMicrophoneFound"),
                                      i, "Error"))
                ELSE IF selectedAudioInputDeviceId = Undeclared
                THEN SetDev(initCatch(Dev, i, "ReferenceError"))
                ELSE LET withId == {k \in 1..Len(audioDevices) :
                                       Truthy(audioDevices[k]) /\ audioDevices[k] # "default"}
                         pick == IF withId # {} THEN audioDevices[Min(withId)]
                                 ELSE audioDevices[1]
                         keep == /\ Truthy(selectedAudioInputDeviceId)
                                 /\ selectedAudioInputDeviceId \in Range(audioDevices)
                         d1 == IF keep THEN Dev ELSE [Dev EXCEPT !.selIn = pick]
                     IN  SetDev(testAudioDevice(d1, i, d1.selIn, "init"))
             [] o.pc = "enum" /\ o.kind = "select" ->
                \* selectAudioDevice, lines 1023-1044
                IF o.req \in Range(audioDevices)
                THEN SetDev(testAudioDevice(Dev, i, o.req, "select"))
                ELSE IF Len(audioDevices) = 0
                THEN SetDev(Finish(Dev, i))
                ELSE SetDev(validateOrSelectDevice(Dev, i, audioDevices, "none"))
             [] o.pc = "enum" /\ o.kind = "update" ->
                \* updateDeviceList, lines 378-404
                IF Len(audioDevices) = 0
                THEN SetDev(Finish(Dev, i))
                ELSE IF Truthy(selectedAudioDeviceId)
                        /\ selectedAudioDeviceId \in Range(audioDevices)
                THEN SetDev(Finish(notifyWebRTCStatus(Dev, i, "updated",
                                                      selectedAudioDeviceId), i))
                ELSE LET d1 == validateOrSelectDevice(Dev, i, audioDevices, "none")
                     IN  SetDev(notifyWebRTCStatus(d1, i, "updated", d1.sel))
    /\ UNCHANGED <<supported, devices, deviceAccessGranted, poolVars>>

\* a selection or update chain that ends without its .catch
EnumRejectUncaught(i, name) ==
    /\ NoReaction
    /\ i \in 1..Len(ops)
    /\ ops[i].pc \in {"enum1", "enum2", "enum"}
    /\ IF ops[i].kind = "init"
       THEN SetDev(initCatch(Dev, i, name))
       ELSE SetDev([Dev EXCEPT !.ops[i].pc = "unhandledrejection"])
    /\ UNCHANGED <<supported, devices, deviceAccessGranted, poolVars>>

\* enumerateDevices() rejects: the final .catch of the chain runs (line 559
\* for the initialization, 1045 for a selection, 405 for an update)
EnumReject(i, name) ==
    /\ NoReaction
    /\ i \in 1..Len(ops)
    /\ ops[i].pc \in {"enum1", "enum2", "enum"}
    /\ IF ops[i].kind = "init"
       THEN SetDev(initCatch(Dev, i, name))
       ELSE SetDev(Finish(Dev, i))
    /\ UNCHANGED <<supported, devices, deviceAccessGranted, poolVars>>

\* a then callback that keeps the stream it received
keepTracks(d, i) == d

\* stream.getTracks().forEach(track => track.stop()), lines 342 and 460
stopTracks(d, i) == [d EXCEPT !.ops[i].held = @ - 1]

\* getUserMedia(constraints) resolves with a stream whose audio track reports
\* the device id r ("" when the settings carry none); the stream is stopped
\* at once (lines 460, 342)
GumResolve(i, r) ==
    /\ NoReaction
    /\ i \in 1..Len(ops)
    /\ ops[i].pc \in {"gum", "test", "testAny"}
    /\ IF ops[i].pc = "test"
       THEN ops[i].arg \in Range(devices) /\ r \in {ops[i].arg, ""}
       ELSE devices # <<>> /\ r \in Range(devices) \cup {""}
    /\ LET o  == ops[i]
           d0 == [Dev EXCEPT !.ops[i].opens =
                      Append(@, [constraint |-> IF o.pc = "test" THEN o.arg
                                                ELSE IF o.pc = "gum" THEN "permission"
                                                ELSE "any",
                                 ok |-> TRUE, r |-> r]),
                              !.ops[i].held = @ + 1]
       IN  IF o.pc = "gum"
           THEN \* lines 445-463
                SetDev([stopTracks([d0 EXCEPT !.selIn = IF Truthy(r) THEN r ELSE @], i)
                            EXCEPT !.ops[i].granted = TRUE,
                                   !.ops[i].pc = "enum2"])
           ELSE \* testAudioDevice, lines 330-345: resolves true
                SetDev([stopTracks(IF Truthy(r) THEN Write(d0, i, r) ELSE d0, i)
                            EXCEPT !.ops[i].pc = "tested", !.ops[i].result = "true"])
    /\ UNCHANGED <<supported, devices, deviceAccessGranted, poolVars>>

\* a variant without the fallback: a failed constrained open resolves false
GumRejectNoFallback(i, name) ==
    /\ NoReaction
    /\ i \in 1..Len(ops)
    /\ ops[i].pc \in {"gum", "test", "testAny"}
    /\ LET o  == ops[i]
           d0 == [Dev EXCEPT !.ops[i].opens =
                      Append(@, [constraint |-> IF o.pc = "test" THEN o.arg
                                                ELSE IF o.pc = "gum" THEN "permission"
                                                ELSE "any",
                                 ok |-> FALSE, r |-> ""])]
       IN  IF o.pc = "gum"
           THEN SetDev(initCatch(d0, i, name))
           ELSE SetDev([notifyWebRTCStatus(d0, i, "error", "DeviceAccessError")
                            EXCEPT !.ops[i].pc = "tested", !.ops[i].result = "false"])
    /\ UNCHANGED <<supported, devices, deviceAccessGranted, poolVars>>

\* a variant that reports the error before it falls back
GumRejectReportsEarly(i, name) ==
    /\ NoReaction
    /\ i \in 1..Len(ops)
    /\ ops[i].pc \in {"gum", "test", "testAny"}
    /\ LET o  == ops[i]
           d0 == [Dev EXCEPT !.ops[i].opens =
                      Append(@, [constraint |-> IF o.pc = "test" THEN o.arg
                                                ELSE IF o.pc = "gum" THEN "permission"
                                                ELSE "any",
                                 ok |-> FALSE, r |-> ""])]
       IN  CASE o.pc = "gum" -> SetDev(initCatch(d0, i, name))
             [] o.pc = "test" ->
                SetDev([notifyWebRTCStatus(d0, i, "error", "DeviceAccessError")
                            EXCEPT !.ops[i].pc = "testAny"])
             [] o.pc = "testAny" ->
                SetDev([notifyWebRTCStatus(d0, i, "error", "DeviceAccessError")
                            EXCEPT !.ops[i].pc = "tested", !.ops[i].result = "false"])
    /\ UNCHANGED <<supported, devices, deviceAccessGranted, poolVars>>

\* a variant that tries the unconstrained open again when it fails
GumRejectRetries(i, name) ==
    /\ NoReaction
    /\ i \in 1..Len(ops)
    /\ ops[i].pc \in {"gum", "test", "testAny"}
    /\ LET o  == ops[i]
           d0 == [Dev EXCEPT !.ops[i].opens =
                      Append(@, [constraint |-> IF o.pc = "test" THEN o.arg
                                                ELSE IF o.pc = "gum" THEN "permission"
                                                ELSE "any",
                                 ok |-> FALSE, r |-> ""])]
       IN  IF o.pc = "gum"
           THEN SetDev(initCatch(d0, i, name))
           ELSE SetDev([d0 EXCEPT !.ops[i].pc = "testAny"])
    /\ UNCHANGED <<supported, devices, deviceAccessGranted, poolVars>>

\* getUserMedia(constraints) rejects
GumReject(i, name) ==
    /\ NoReaction
    /\ i \in 1..Len(ops)
    /\ ops[i].pc \in {"gum", "test", "testAny"}
    /\ LET o  == ops[i]
           d0 == [Dev EXCEPT !.ops[i].opens =
                      Append(@, [constraint |-> IF o.pc = "test" THEN o.arg
                                                ELSE IF o.pc = "gum" THEN "permission"
                                                ELSE "any",
                                 ok |-> FALSE, r |-> ""])]
       IN  CASE o.pc = "gum" -> SetDev(initCatch(d0, i, name))
             [] o.pc = "test" ->
                \* lines 350-353: testAudioDevice(null)
                SetDev([d0 EXCEPT !.ops[i].pc = "testAny"])
             [] o.pc = "testAny" ->
                \* lines 356-362: resolves false
                SetDev([notifyWebRTCStatus(d0, i, "error", "DeviceAccessError")
                            EXCEPT !.ops[i].pc = "tested", !.ops[i].result = "false"])
    /\ UNCHANGED <<supported, devices, deviceAccessGranted, poolVars>>

\* the reaction to a settled testAudioDevice promise
TestSettled(i) ==
    /\ i \in 1..Len(ops)
    /\ ops[i].pc = "tested"
    /\ SetDev(afterTest(Dev, i, ops[i].result = "true"))
    /\ UNCHANGED <<supported, devices, deviceAccessGranted, poolVars>>

\* selectAudioDevice(deviceId), lines 1013-1022, called for a "selectAudioDevice"
\* message (lines 1244-1245).  It returns at once for a falsy id; without
\* navigator.mediaDevices the call throws into the message handler's try/catch.
selectAudioDevice(deviceId) ==
    /\ NoReaction
    /\ ops # <<>>
    /\ Len(ops) < MaxOps
    /\ IF supported /\ Truthy(deviceId)
       THEN SetDev([Dev EXCEPT !.ops = Start(ops, NewOp("select", "enum", deviceId))])
       ELSE SetDev([Dev EXCEPT !.ops = Start(ops, NewOp("select", "done", deviceId)),
                               !.doneSeq = Append(@, Len(ops) + 1)])
    /\ UNCHANGED <<supported, devices, deviceAccessGranted, poolVars>>

\* updateDeviceList without the check of deviceAccessGranted (lines 370-373)
updateDeviceListUnguarded(newDevices) ==
    /\ NoReaction
    /\ ops # <<>>
    /\ Len(ops) < MaxOps
    /\ supported
    /\ newDevices # devices
    /\ devices' = newDevices
    /\ SetDev([Dev EXCEPT !.ops = Start(ops, NewOp("update", "enum", ""))])
    /\ UNCHANGED <<supported, deviceAccessGranted, poolVars>>

\* the devices attached change and the browser fires 'devicechange' (listener
\* of lines 1051-1058): updateDeviceList(), lines 369-377
updateDeviceList(newDevices) ==
    /\ NoReaction
    /\ ops # <<>>
    /\ Len(ops) < MaxOps
    /\ supported
    /\ newDevices # devices
    /\ devices' = newDevices
    /\ IF ~deviceAccessGranted
       THEN SetDev([Dev EXCEPT !.ops = Start(ops, NewOp("update", "done", "")),
                               !.doneSeq = Append(@, Len(ops) + 1)])
       ELSE SetDev([Dev EXCEPT !.ops = Start(ops, NewOp("update", "enum", ""))])
    /\ UNCHANGED <<supported, deviceAccessGranted, poolVars>>

NextDev ==
    \/ initializeWebRTCDevices
    \/ \E i \in 1..MaxOps, outputs \in BOOLEAN : EnumResolve(i, outputs)
    \/ \E i \in 1..MaxOps, name \in ErrNames : EnumReject(i, name)
    \/ \E i \in 1..MaxOps, r \in DeviceIds : GumResolve(i, r)
    \/ \E i \in 1..MaxOps, name \in ErrNames : GumReject(i, name)
    \/ \E i \in 1..MaxOps : TestSettled(i)
    \/ \E deviceId \in DeviceIds : selectAudioDevice(deviceId)
    \/ \E newDevices \in Enumerations : updateDeviceList(newDevices)

\* The two helpers do not interact: each is checked with the other at rest.
SpecPool == InitPool /\ [][NextPool]_vars

SpecPoolFair ==
    /\ InitPool
    /\ [][NextPoolFair]_vars
    /\ SF_vars(Tick)
    /\ WF_vars(PlayRejected)
    /\ SF_vars(\E t \in timers : SafetyTimeout(t))

SpecDev == Init /\ [][NextDev]_vars

\* The device flow when the browser settles every call it was given: the
\* pending enumerateDevices or getUserMedia promise of operation i resolves or
\* rejects, and the reaction to a settled promise runs.
Settle(i) ==
    \/ \E outputs \in BOOLEAN : EnumResolve(i, outputs)
    \/ \E name \in ErrNames : EnumReject(i, name)
    \/ \E r \in DeviceIds : GumResolve(i, r)
    \/ \E name \in ErrNames : GumReject(i, name)
    \/ TestSettled(i)

SpecDevFair ==
    /\ Init
    /\ [][NextDev]_vars
    /\ \A i \in 1..MaxOps : WF_vars(Settle(i))

(***************************************************************************)
(* The 'message' listener of setupMessageHandling, lines 1221-1252: one    *)
(* task per message posted to the window.  A message is its data string:   *)
(* text that JSON.parse rejects, or the JSON of an object with a type.     *)
(***************************************************************************)
(* `state' is data.interaction.state ("absent": no data.interaction) and   *)
(* `old' is data.interaction.old.state ("absent": no old object, "": an    *)
(* old object without a state).                                            *)
Malformed == [type |-> "malformed", deviceId |-> "", state |-> "absent", old |-> "absent"]

InteractionStates == {"alerting", "connected"}

Messages ==
    {Malformed}
    \cup {[type |-> t, deviceId |-> "", state |-> "absent", old |-> "absent"] :
              t \in {"screenPop", "notificationSubscription",
                     "processCallLog", "selectAudioDevice"}}
    \cup {[type |-> "interactionSubscription", deviceId |-> "", state |-> "alerting",
           old |-> o] : o \in InteractionStates \cup {"absent", ""}}
    \cup {[type |-> "interactionSubscription", deviceId |-> "", state |-> "connected",
           old |-> "alerting"],
          [type |-> "interactionSubscription", deviceId |-> "", state |-> "absent",
           old |-> "absent"]}
    \cup {[type |-> "selectAudioDevice", deviceId |-> id, state |-> "absent",
           old |-> "absent"] : id \in {"a"}}

\* a handler that rings for every update of an alerting interaction
handleInteractionSoundWhileAlerting(m) == m.state = "alerting"

\* handleInteractionSound(message), lines 1150-1168: TRUE iff it calls
\* playSound (one of the four calls of lines 1158-1166)
handleInteractionSound(m) ==
    /\ m.state # "absent"
    /\ m.state = "alerting"
    /\ (m.old = "absent" \/ m.old # "alerting")

Rings(m) ==
    \/ m.type \in {"screenPop", "notificationSubscription"}
    \/ m.type = "interactionSubscription" /\ handleInteractionSound(m)

\* a listener that rings before it parses the data
onMessageRingsFirst(m, allowed) ==
    /\ microtasks = <<>>
    /\ NoReaction
    /\ \E url \in SOUNDS : playSound(url, allowed)

onMessage(m, allowed) ==
    /\ microtasks = <<>>
    /\ NoReaction
    /\ IF m.type = "malformed"
       THEN \* JSON.parse throws; catch (e) logs, lines 1248-1250
            /\ last' = Released("malformed", NULL)
            /\ UNCHANGED <<now, els, nEls, audioPool, timers, microtasks, devVars>>
       ELSE IF Rings(m)
       THEN \* lines 1228, 1238 and handleInteractionSound, lines 1150-1168
            \E url \in SOUNDS : playSound(url, allowed)
       ELSE IF m.type = "selectAudioDevice" /\ Truthy(m.deviceId)
       THEN \* lines 1244-1245
            selectAudioDevice(m.deviceId)
       ELSE \* nothing but a form field is written
            /\ last' = Released(IF m.type = "interactionSubscription"
                                THEN "notalerting" ELSE "ignored", NULL)
            /\ UNCHANGED <<now, els, nEls, audioPool, timers, microtasks, devVars>>

\* The page with one microphone attached, receiving messages while its
\* initialization runs and sounds start and end.
InitMsg ==
    /\ now = T0
    /\ els = [e \in ElIds |-> NewAudio]
    /\ nEls = MAX_AUDIO_POOL_SIZE
    /\ audioPool = [i \in 1..MAX_AUDIO_POOL_SIZE |-> i]
    /\ timers = {}
    /\ microtasks = <<>>
    /\ last = NoCall
    /\ supported = TRUE
    /\ devices = <<"a">>
    /\ selectedAudioDeviceId = NullId
    /\ deviceAccessGranted = FALSE
    /\ selectedAudioInputDeviceId = Undeclared
    /\ ops = <<>>
    /\ lastWrite = [op |-> 0, val |-> NullId]
    /\ doneSeq = <<>>

NextMsg ==
    \/ \E m \in Messages, allowed \in BOOLEAN : onMessage(m, allowed)
    \/ \E e \in ElIds : PlayStarted(e)
    \/ \E e \in ElIds : Ended(e)
    \/ PlayRejected
    \/ initializeWebRTCDevices
    \/ \E i \in 1..MaxOps : EnumResolve(i, TRUE)
    \/ \E i \in 1..MaxOps : EnumReject(i, "NotFoundError")
    \/ \E i \in 1..MaxOps, r \in {"a"} : GumResolve(i, r)
    \/ \E i \in 1..MaxOps : GumReject(i, "NotAllowedError")
    \/ \E i \in 1..MaxOps : TestSettled(i)

SpecMsg == InitMsg /\ [][NextMsg]_vars

(***************************************************************************)
(* A device is plugged in or removed while an operation waits for a        *)
(* browser call.  The 'devicechange' listener (lines 1053-1056) calls      *)
(* updateDeviceList, which returns at lines 370-373 as long as             *)
(* deviceAccessGranted is false; the calls already pending settle against  *)
(* the new set of devices.                                                 *)
(***************************************************************************)
devicechange(newDevices) ==
    /\ NoReaction
    /\ supported
    /\ ~deviceAccessGranted
    /\ InFlight(ops)
    /\ newDevices # devices
    /\ devices' = newDevices
    /\ UNCHANGED <<supported, deviceAccessGranted, selectedAudioDeviceId,
                   selectedAudioInputDeviceId, ops, lastWrite, doneSeq, poolVars>>

\* The page with the devices 'default' and 'a' attached; 'b' is plugged in
\* and removed while the initialization and a selection run.
InitSel ==
    /\ now = T0
    /\ els = [e \in ElIds |-> NewAudio]
    /\ nEls = MAX_AUDIO_POOL_SIZE
    /\ audioPool = [i \in 1..MAX_AUDIO_POOL_SIZE |-> i]
    /\ timers = {}
    /\ microtasks = <<>>
    /\ last = NoCall
    /\ supported = TRUE
    /\ devices = <<"default", "a">>
    /\ selectedAudioDeviceId = NullId
    /\ deviceAccessGranted = FALSE
    /\ selectedAudioInputDeviceId = Undeclared
    /\ ops = <<>>
    /\ lastWrite = [op |-> 0, val |-> NullId]
    /\ doneSeq = <<>>

NextSel ==
    \/ initializeWebRTCDevices
    \/ \E i \in 1..MaxOps : EnumResolve(i, TRUE)
    \/ \E i \in 1..MaxOps : EnumReject(i, "NotFoundError")
    \/ \E i \in 1..MaxOps, r \in DeviceIds : GumResolve(i, r)
    \/ \E i \in 1..MaxOps : GumReject(i, "NotReadableError")
    \/ \E i \in 1..MaxOps : TestSettled(i)
    \/ \E deviceId \in DeviceIds : selectAudioDevice(deviceId)
    \/ \E newDevices \in {<<"default", "a">>, <<"a", "b">>} : devicechange(newDevices)

SpecSel == InitSel /\ [][NextSel]_vars

(***************************************************************************)
(* initializeAudioPool(), lines 40-56, applied to the pool in any state    *)
(* playing sounds can bring it to.  Every call creates MAX_AUDIO_POOL_SIZE *)
(* new elements; the elements it drops stay reachable from the callbacks   *)
(* of their plays.                                                         *)
(***************************************************************************)
MaxInits == 2
ReinitEls == 1..((MaxInits + 1) * MAX_AUDIO_POOL_SIZE)

\* initializeAudioPool without the forEach of lines 42-44
initializeAudioPoolNoCleanup ==
    /\ nEls + MAX_AUDIO_POOL_SIZE <= Cardinality(ReinitEls)
    /\ UNCHANGED <<els, timers, microtasks>>
    /\ audioPool' = [i \in 1..MAX_AUDIO_POOL_SIZE |-> nEls + i]
    /\ nEls' = nEls + MAX_AUDIO_POOL_SIZE
    /\ last' = [Released("initialized", NULL) EXCEPT
                   !.poolLen = Len(audioPool),
                   !.wasInUse = \E i \in 1..Len(audioPool) : els[audioPool[i]].inUse]
    /\ UNCHANGED <<now, devVars>>

initializeAudioPool ==
    /\ nEls + MAX_AUDIO_POOL_SIZE <= Cardinality(ReinitEls)
    /\ LET h     == cleanupAll(Heap, audioPool)
           fresh == [i \in 1..MAX_AUDIO_POOL_SIZE |-> nEls + i]
       IN  /\ SetHeap([h EXCEPT !.els =
                           [e \in DOMAIN h.els |->
                               IF e \in Range(fresh)
                               THEN [NewAudio EXCEPT !.inUse = FALSE]
                               ELSE h.els[e]]])
           /\ audioPool' = fresh
    /\ nEls' = nEls + MAX_AUDIO_POOL_SIZE
    /\ last' = [Released("initialized", NULL) EXCEPT
                   !.poolLen = Len(audioPool),
                   !.wasInUse = \E i \in 1..Len(audioPool) : els[audioPool[i]].inUse]
    /\ UNCHANGED <<now, devVars>>

\* The page after DOMContentLoaded, with room for the elements of later
\* initializations.
InitReinit ==
    /\ now = T0
    /\ els = [e \in ReinitEls |-> NewAudio]
    /\ nEls = MAX_AUDIO_POOL_SIZE
    /\ audioPool = [i \in 1..MAX_AUDIO_POOL_SIZE |-> i]
    /\ timers = {}
    /\ microtasks = <<>>
    /\ last = NoCall
    /\ supported = TRUE
    /\ devices = <<>>
    /\ selectedAudioDeviceId = NullId
    /\ deviceAccessGranted = FALSE
    /\ selectedAudioInputDeviceId = Undeclared
    /\ ops = <<>>
    /\ lastWrite = [op |-> 0, val |-> NullId]
    /\ doneSeq = <<>>

NextReinit ==
    \/ \E url \in SOUNDS, allowed \in BOOLEAN : playSound(url, allowed)
    \/ \E e \in ReinitEls : PlayStarted(e)
    \/ \E e \in ReinitEls : Ended(e)
    \/ \E e \in ReinitEls : BrowserPause(e)
    \/ PlayRejected
    \/ initializeAudioPool

SpecReinit == InitReinit /\ [][NextReinit]_vars

Next == NextPool \/ NextDev \/ NextMsg \/ NextSel \/ NextReinit
Spec == Init /\ [][Next]_vars

(***************************************************************************)
(* Properties of the audio pool.                                           *)
(***************************************************************************)
IsPlay == last.tier \in {"unused", "done", "stale", "forced", "new"}

\* C1: getAudioFromPool chooses by strict priority: an element not in use;
\* only if the pool has none, one that has ended or is paused; only if it has
\* none, one started more than StaleMs ago; only if it has none, the first
\* element of the pool.  It never returns an element that is in use and
\* playing while the pool has one that is unused or ended/paused.
C1_AcquirePriority ==
    IsPlay =>
        /\ last.hadUnused => (last.wasIn /\ ~last.wasInUse)
        /\ (~last.hadUnused /\ last.hadDone) => (last.wasIn /\ last.wasDone)
        /\ (~last.hadUnused /\ ~last.hadDone /\ last.hadStale)
              => (last.wasIn /\ last.wasStale)
        /\ (~last.hadUnused /\ ~last.hadDone /\ ~last.hadStale /\ last.poolLen > 0)
              => last.audio = last.first
        /\ (last.hadUnused \/ last.hadDone) => ~(last.wasInUse /\ ~last.wasDone)

\* a call that found every element in use, one of them paused and another
\* one stale and playing, and took the paused one
C1_Witness ==
    /\ IsPlay
    /\ ~last.hadUnused /\ last.hadDone /\ last.hadStale
    /\ last.wasDone /\ ~last.wasStale

\* C2: from an initialized pool playSound never fails, however many calls
\* follow one another with no other event in between: every call returns an
\* element, the element is marked in use, and it is one of the pool's elements.
C2_PlayNeverFails ==
    (IsPlay /\ last.poolLen > 0) =>
        /\ last.audio # NULL
        /\ last.inUse
        /\ els[last.audio].inUse
        /\ last.wasIn
        /\ Len(audioPool) = last.poolLen

\* more calls than the pool has elements before the clock moved and before
\* any element started, ended, failed or was paused: every element of the pool
\* was started at load time and the last call reused one that was in use and
\* still waiting for its playback to start
C2_Witness ==
    /\ now = T0
    /\ last.tier = "forced"
    /\ last.wasIn /\ last.inUse
    /\ Len(audioPool) = MAX_AUDIO_POOL_SIZE
    /\ \A i \in 1..Len(audioPool) :
          /\ els[audioPool[i]].startTime = T0
          /\ els[audioPool[i]].promise = "pending"
    /\ microtasks = <<last.audio>>

\* C3: every element that is not in use has an empty source, no ended/error
\* handler, no armed safety timer and a null start time; a release leaves the
\* element in that state.
C3_ReleasedIsClean ==
    /\ \A e \in 1..nEls :
          ~els[e].inUse =>
              /\ els[e].src = ""
              /\ ~els[e].onended /\ ~els[e].onerror
              /\ els[e].safetyTimeout = NULL
              /\ \A t \in timers : t.el # e
              /\ els[e].startTime = NULL
    /\ last.tier \in {"ended", "error", "rejected", "timeout"} =>
          ~els[last.audio].inUse

\* an element released by its ended event while its safety timer was armed
C3_Witness ==
    /\ last.tier = "ended"
    /\ ~els[last.audio].inUse
    /\ els[last.audio].src = ""

\* C4: every hold of an element started by playSound ends: no element stays
\* in use forever (it is released by its ended or error event, a rejected
\* play(), a reclaim, or at the latest by its safety timer).
C4_HoldEnds ==
    \A e \in ElIds : els[e].inUse ~> ~els[e].inUse

\* the safety timer fired on an element still in use and released it
C4_Witness ==
    /\ last.tier = "timeout"
    /\ ~els[last.audio].inUse
    /\ \A t \in timers : t.el # last.audio

(***************************************************************************)
(* Properties of the microphone device flow.                               *)
(***************************************************************************)
IsTestOpen(x) == x.constraint # "permission"
\* the streams testAudioDevice tried to open for an operation, in order
TestOpens(o) == SelectSeq(o.opens, IsTestOpen)
AnyFailed(o) ==
    \E k \in 1..Len(o.opens) : o.opens[k].constraint = "any" /\ ~o.opens[k].ok
\* the constrained open failed and the unconstrained one that followed succeeded
FellBack(o) ==
    /\ Len(TestOpens(o)) = 2
    /\ TestOpens(o)[1].constraint = o.arg /\ ~TestOpens(o)[1].ok
    /\ TestOpens(o)[2].constraint = "any" /\ TestOpens(o)[2].ok
DeviceAccessError == Status("error", "DeviceAccessError")

\* C5: selectAudioDevice(deviceId) sets selectedAudioDeviceId to deviceId and
\* sends the ready status naming deviceId only if, during that call, a stream
\* constrained to exactly deviceId was opened successfully.
C5_ValidatesBeforeCommit ==
    \A i \in 1..Len(ops) :
        (/\ ops[i].kind = "select"
         /\ \/ ops[i].wrote = ops[i].req
            \/ Status("ready", ops[i].req) \in Range(ops[i].sent))
        => \E k \in 1..Len(ops[i].opens) :
              ops[i].opens[k].constraint = ops[i].req /\ ops[i].opens[k].ok

\* C6: once initializeWebRTCDevices has completed with permission granted and
\* reported ready, a devicechange event whose enumeration has an input device
\* leaves, when its handling is over, a selected id that is in that enumeration.
C6_DeviceChangeReselects ==
    (/\ Len(ops) >= 2
     /\ ops[1].kind = "init" /\ ops[1].granted
     /\ \E k \in 1..Len(ops[1].sent) : ops[1].sent[k].status = "ready"
     /\ ops[Len(ops)].kind = "update" /\ ~ops[Len(ops)].overlapped
     /\ ~InFlight(ops)
     /\ devices # <<>>)
    => selectedAudioDeviceId \in Range(devices)

\* C7: testAudioDevice never rejects: it resolves true or false; it resolves
\* false only after the unconstrained open failed; when the constrained open
\* fails and the unconstrained one succeeds it resolves true and
\* selectedAudioDeviceId is the device id the opened stream reports.
C7_ValidateFallsBack ==
    \A i \in 1..Len(ops) :
        ops[i].pc = "tested" =>
            /\ ops[i].result \in {"true", "false"}
            /\ ops[i].result = "false" =>
                  /\ TestOpens(ops[i]) # <<>>
                  /\ TestOpens(ops[i])[Len(TestOpens(ops[i]))].constraint = "any"
                  /\ ~TestOpens(ops[i])[Len(TestOpens(ops[i]))].ok
            /\ FellBack(ops[i]) =>
                  /\ ops[i].result = "true"
                  /\ Truthy(TestOpens(ops[i])[2].r) =>
                        selectedAudioDeviceId = TestOpens(ops[i])[2].r

\* a test of a device that could not be opened resolved true through the
\* unconstrained open, whose stream reported another device
C7_Witness ==
    \E i \in 1..Len(ops) :
        /\ ops[i].pc = "tested" /\ ops[i].result = "true"
        /\ FellBack(ops[i])
        /\ Truthy(TestOpens(ops[i])[2].r)
        /\ TestOpens(ops[i])[2].r # ops[i].arg
        /\ selectedAudioDeviceId = TestOpens(ops[i])[2].r

\* C8: an operation has sent the DeviceAccessError status exactly if its
\* unconstrained open failed, and exactly then its test resolved false; a
\* failed constrained open followed by a successful unconstrained one sends none.
C8_ErrorOnlyWhenAnyFails ==
    \A i \in 1..Len(ops) :
        /\ (DeviceAccessError \in Range(ops[i].sent)) <=> AnyFailed(ops[i])
        /\ (ops[i].result = "false") <=> AnyFailed(ops[i])
        /\ FellBack(ops[i]) => DeviceAccessError \notin Range(ops[i].sent)

\* the constrained open failed, the unconstrained one succeeded, and no
\* DeviceAccessError was sent
C8_Witness ==
    \E i \in 1..Len(ops) :
        /\ FellBack(ops[i])
        /\ ops[i].result = "true"
        /\ DeviceAccessError \notin Range(ops[i].sent)

\* C16: testAudioDevice opens at most two streams: at most one constrained
\* to its device id and, only after that one failed, one without constraint;
\* once an open succeeded or the unconstrained one failed it has settled and
\* opens no more.
C16_AtMostTwoOpens ==
    \A i \in 1..Len(ops) :
        LET t == TestOpens(ops[i])
        IN  /\ Len(t) <= 2
            /\ Len(t) >= 1 =>
                  \/ t[1].constraint = "any" /\ ~Truthy(ops[i].arg) /\ Len(t) = 1
                  \/ t[1].constraint = ops[i].arg /\ Truthy(ops[i].arg)
            /\ Len(t) = 2 => (~t[1].ok /\ t[2].constraint = "any")
            /\ (Len(t) >= 1 /\ (t[Len(t)].ok \/ t[Len(t)].constraint = "any"))
                  <=> ops[i].pc \in {"tested", "done"} /\ ops[i].result # "none"

\* both opens failed and the test settled
C16_Witness ==
    \E i \in 1..Len(ops) :
        /\ Len(TestOpens(ops[i])) = 2
        /\ ~TestOpens(ops[i])[1].ok /\ ~TestOpens(ops[i])[2].ok
        /\ ops[i].pc = "done"
        /\ ops[i].result = "false"

\* C17: no operation holds a stream between two steps: every stream that
\* getUserMedia delivered was stopped by the callback that received it.
C17_NoStreamHeld ==
    \A i \in 1..Len(ops) : ops[i].held = 0

\* initialization received the permission stream and then the stream of its
\* device test, and holds neither
C17_Witness ==
    \E i \in 1..Len(ops) :
        /\ ops[i].kind = "init"
        /\ Len(ops[i].opens) = 2
        /\ ops[i].opens[1].ok /\ ops[i].opens[2].ok
        /\ ops[i].held = 0

\* the first enumerated device whose id is non-empty and not 'default', or
\* else the first enumerated device
Preferred(q) ==
    IF \E k \in 1..Len(q) : q[k] \notin {"", "default"}
    THEN q[Min({k \in 1..Len(q) : q[k] \notin {"", "default"}})]
    ELSE q[1]

\* C18: when initialization, permission granted, receives an enumeration
\* with input devices, it goes on to test the preferred device of that
\* enumeration and has selected it as its input device.
C18_InitSelectsPreferred ==
    [][\A i \in 1..Len(ops) :
          (/\ ops[i].kind = "init" /\ ops[i].granted /\ ops[i].pc = "enum2"
           /\ devices # <<>>
           /\ \E outputs \in BOOLEAN : EnumResolve(i, outputs))
          => /\ ops'[i].pc \in {"test", "testAny"}
             /\ ops'[i].arg = Preferred(devices)
             /\ selectedAudioInputDeviceId' = Preferred(devices)]_vars

\* C19: deviceAccessGranted is false until a permission request has
\* succeeded, and it is true in every state after initialization was
\* granted permission.
C19_GrantedFlag ==
    /\ deviceAccessGranted => \E i \in 1..Len(ops) : ops[i].granted
    /\ (\E i \in 1..Len(ops) : ops[i].granted) => deviceAccessGranted

\* C20: without navigator.mediaDevices every initialization has only shown
\* the BrowserNotSupported notification: it is over, it sent no status,
\* opened no stream, started no enumeration and wrote no device id, and
\* selectedAudioDeviceId and deviceAccessGranted have their initial values.
C20_UnsupportedOnlyReports ==
    ~supported =>
        /\ \A i \in 1..Len(ops) :
              ops[i].kind = "init" =>
                  /\ ops[i].pc = "done"
                  /\ ops[i].shown = <<"BrowserNotSupported">>
                  /\ ops[i].sent = <<>>
                  /\ ops[i].opens = <<>>
                  /\ ops[i].wrote = "none"
                  /\ ~ops[i].granted
        /\ selectedAudioDeviceId = NullId
        /\ selectedAudioInputDeviceId = Undeclared
        /\ ~deviceAccessGranted

\* initialization ran without navigator.mediaDevices, and ran again from the
\* retry button of the troubleshooting guide
C20_Witness ==
    /\ ~supported
    /\ Len(ops) = 2
    /\ ops[1].kind = "init" /\ ops[2].kind = "init"
    /\ ops[2].shown = <<"BrowserNotSupported">>

\* the operation that completed last, when it overlapped another one
LastDone == ops[doneSeq[Len(doneSeq)]]
BothDone == ~InFlight(ops) /\ Len(doneSeq) >= 2 /\ LastDone.overlapped

\* C9 as stated: when two overlapping validations have both completed, the
\* selected id is the value written by the one that completed last.
C9_LastCompletedWins ==
    (BothDone /\ LastDone.wrote # "none") => selectedAudioDeviceId = LastDone.wrote

\* C9 amended: an overlapped validation is never cancelled (a selection whose
\* test resolved true has committed its id and sent ready, and a completed
\* test resolved by its own last open); the selected id is always the value
\* of the latest write; and it is the value written by the operation that
\* completed last when that one wrote on completion.
C9_LatestWriteWins ==
    /\ selectedAudioDeviceId = lastWrite.val
    /\ \A i \in 1..Len(ops) :
          (ops[i].pc = "done" /\ ops[i].overlapped /\ TestOpens(ops[i]) # <<>>) =>
              /\ ops[i].result = "true" <=> TestOpens(ops[i])[Len(TestOpens(ops[i]))].ok
              /\ ops[i].result = "false" <=> ~TestOpens(ops[i])[Len(TestOpens(ops[i]))].ok
              /\ (ops[i].cont = "select" /\ ops[i].result = "true") =>
                    /\ ops[i].wrote = ops[i].req
                    /\ Status("ready", ops[i].req) \in Range(ops[i].sent)
    /\ (/\ BothDone
        /\ LastDone.result = "true"
        /\ \/ LastDone.cont = "select"
           \/ Truthy(TestOpens(LastDone)[Len(TestOpens(LastDone))].r))
       => selectedAudioDeviceId = LastDone.wrote

\* two overlapping validations have completed; the one that started first
\* completed last, and its write replaced the other one's
C9_Witness ==
    /\ BothDone
    /\ doneSeq = <<2, 1>>
    /\ ops[1].result = "true" /\ ops[2].result = "true"
    /\ ops[2].wrote \notin {"none", selectedAudioDeviceId}
    /\ selectedAudioDeviceId = ops[1].wrote

\* C10: a forced reuse takes the in-use element with the earliest start time.
C10_ForcedIsOldest ==
    last.tier = "forced" => last.oldest

\* C12: right after cleanupAudioResources the pool is empty, every element
\* ever created is not in use and has an empty source, and no safety timer
\* is armed, so none armed before the teardown can fire after it.
C12_TeardownClearsAll ==
    last.tier = "teardown" =>
        /\ audioPool = <<>>
        /\ \A e \in 1..nEls :
              /\ ~els[e].inUse
              /\ els[e].src = ""
              /\ els[e].safetyTimeout = NULL
        /\ timers = {}

\* a teardown of the full pool while every element was in use
C12_Witness ==
    /\ last.tier = "teardown"
    /\ last.poolLen = MAX_AUDIO_POOL_SIZE
    /\ last.wasInUse
    /\ audioPool = <<>>
    /\ timers = {}

\* C13: when the rejection of play() is delivered, the element is released
\* (not in use, empty source, no handle, no armed timer); the playSound call
\* whose play() failed had returned its element to the caller as usual, the
\* failure waiting in the promise's reaction.
C13_StartFailureReleases ==
    /\ last.tier = "rejected" =>
          /\ ~els[last.audio].inUse
          /\ els[last.audio].src = ""
          /\ els[last.audio].safetyTimeout = NULL
          /\ \A t \in timers : t.el # last.audio
    /\ (IsPlay /\ microtasks # <<>>) =>
          /\ last.audio # NULL
          /\ last.inUse
          /\ microtasks[Len(microtasks)] = last.audio

\* the rejection was delivered for an element that was in use
C13_Witness ==
    /\ last.tier = "rejected"
    /\ last.wasInUse
    /\ ~els[last.audio].inUse
    /\ microtasks = <<>>

\* C14: playSound with a missing or empty url returns null and changes
\* nothing: no element's fields, no timer, the pool and the queued reactions
\* are as they were before the call.
C14_NoUrlNoEffect ==
    [][last'.tier = "nourl" =>
          /\ last'.audio = NULL
          /\ UNCHANGED <<els, nEls, audioPool, timers, microtasks, now>>]_vars

\* playSound without a url was called while an element was playing and
\* another one was free
C14_Witness ==
    /\ last.tier = "nourl"
    /\ \E e \in 1..nEls : els[e].inUse /\ els[e].promise = "resolved"
    /\ \E i \in 1..Len(audioPool) : ~els[audioPool[i]].inUse

\* the pool as initializeAudioPool built it
InitialPool == [i \in 1..MAX_AUDIO_POOL_SIZE |-> i]

\* C15: the pool never has more than MAX_AUDIO_POOL_SIZE elements, and from
\* initializeAudioPool on every step other than cleanupAudioResources leaves
\* the pool with the same elements in the same order.
C15_MembershipFixed ==
    /\ [](Len(audioPool) <= MAX_AUDIO_POOL_SIZE)
    /\ [][(audioPool = InitialPool /\ last'.tier # "teardown")
            => audioPool' = InitialPool]_vars

\* the initial pool, every element in use and playing, one of them reclaimed
\* as stale by the call just made
C15_Witness ==
    /\ last.tier = "stale"
    /\ audioPool = InitialPool
    /\ \A i \in 1..Len(audioPool) : els[audioPool[i]].inUse
    /\ nEls = MAX_AUDIO_POOL_SIZE

\* C11: a playSound call that finds the pool empty returns a newly created
\* element that is outside the pool: the pool is still empty after the call.
C11_NewIsOutsidePool ==
    last.tier = "new" =>
        /\ last.poolLen = 0
        /\ ~last.wasIn
        /\ Len(audioPool) = 0

(***************************************************************************)
(* Properties of an initialization run.                                    *)
(***************************************************************************)
IsInit(i) == i \in 1..Len(ops) /\ ops[i].kind = "init"
ErrorIds(o) == {o.sent[k].id : k \in {j \in 1..Len(o.sent) : o.sent[j].status = "error"}}
ReadyCount(o) == Cardinality({k \in 1..Len(o.sent) : o.sent[k].status = "ready"})

\* C21: with navigator.mediaDevices present, every initialization run that
\* is over has asked for microphone permission.
C21_AlwaysAsksPermission ==
    \A i \in 1..Len(ops) :
        (IsInit(i) /\ supported /\ ops[i].pc = "done") =>
            \E k \in 1..Len(ops[i].opens) : ops[i].opens[k].constraint = "permission"

\* C22: an initialization run that failed showed one kind of failure and
\* sent one kind of error, and its last notification is not UnknownError.
C22_OneFailureKind ==
    \A i \in 1..Len(ops) :
        (IsInit(i) /\ ops[i].pc = "done" /\ ops[i].shown # <<>>) =>
            /\ Cardinality(Range(ops[i].shown)) = 1
            /\ Cardinality(ErrorIds(ops[i])) <= 1
            /\ ops[i].shown[Len(ops[i].shown)] # "UnknownError"

\* C23: an initialization run sends ready at most once, as the last thing it
\* does, and only after permission was granted (its first stream), that
\* stream was stopped, the enumeration that followed had input devices and
\* the device test resolved true, in this order; a run that reported an
\* error has not sent ready.
C23_ReadyOnceInOrder ==
    /\ [](\A i \in 1..Len(ops) :
            IsInit(i) =>
                /\ ReadyCount(ops[i]) <= 1
                /\ ReadyCount(ops[i]) = 1 =>
                      /\ ops[i].pc = "done"
                      /\ ops[i].sent[Len(ops[i].sent)].status = "ready"
                      /\ ops[i].granted /\ ops[i].held = 0
                      /\ Len(ops[i].opens) >= 2
                      /\ ops[i].opens[1].constraint = "permission" /\ ops[i].opens[1].ok
                      /\ ops[i].opens[Len(ops[i].opens)].ok
                      /\ ops[i].result = "true"
                      /\ ErrorIds(ops[i]) = {} /\ ops[i].shown = <<>>)
    /\ [][\A i \in 1..Len(ops) :
            IsInit(i) =>
                /\ (ops'[i].pc = "enum2" /\ ops[i].pc # "enum2") =>
                      (ops[i].pc = "gum" /\ ops'[i].granted /\ ops'[i].held = 0)
                /\ (ops'[i].pc \in {"test", "testAny"} /\ ops[i].pc \notin {"test", "testAny"}) =>
                      (ops[i].pc = "enum2" /\ ops[i].granted /\ devices # <<>>)
                /\ ReadyCount(ops'[i]) > ReadyCount(ops[i]) =>
                      (ops[i].pc = "tested" /\ ops[i].result = "true")]_vars

\* a run that was granted permission, whose test of the selected device
\* succeeded through the fallback, and that sent ready
C23_Witness ==
    \E i \in 1..Len(ops) :
        /\ IsInit(i)
        /\ ReadyCount(ops[i]) = 1
        /\ Len(ops[i].opens) = 3
        /\ ~ops[i].opens[2].ok

\* an initialization run is over and has reported
InitOver(i) ==
    IF i \in 1..Len(ops)
    THEN /\ ops[i].pc = "done"
         /\ ops[i].sent # <<>> \/ ops[i].shown # <<>>
    ELSE FALSE

\* C24: when the browser settles every call, every initialization run comes
\* to an end having sent a status or shown a notification, and a run that is
\* over does nothing more.
C24_InitTerminates ==
    /\ \A i \in 1..MaxOps : [](IsInit(i) => <>InitOver(i))
    /\ [][\A i \in 1..Len(ops) :
            (IsInit(i) /\ ops[i].pc = "done") => ops'[i] = ops[i]]_vars

\* a run that went through both enumerations, the permission request and
\* both opens of the device test, and ended with an error
C24_Witness ==
    \E i \in 1..Len(ops) :
        /\ IsInit(i)
        /\ ops[i].pc = "done"
        /\ Len(ops[i].opens) = 3
        /\ ops[i].result = "false"
        /\ ops[i].shown # <<>>

(***************************************************************************)
(* Properties of the message listener.                                     *)
(***************************************************************************)
BadMessage == \E allowed \in BOOLEAN : onMessage(Malformed, allowed)

\* the listener takes the next message: nothing it left behind is pending
ListenerReady == microtasks = <<>> /\ NoReaction

\* C25: a message whose data does not parse is only caught and logged: its
\* step plays no sound, starts no selection, sends nothing and leaves the
\* pool, the elements, the timers, the pending callbacks and the whole
\* device state as they were, so the listener takes the next message in
\* the state in which it would have taken it without the bad one.
C25_MalformedIsIgnored ==
    [][BadMessage =>
          /\ UNCHANGED <<now, els, nEls, audioPool, timers, microtasks>>
          /\ UNCHANGED devVars
          /\ last'.tier = "malformed"
          /\ ListenerReady']_vars

C25_Witness ==
    /\ last.tier = "malformed"
    /\ \E e \in ElIds : els[e].inUse
    /\ InFlight(ops)
    /\ selectedAudioDeviceId # NullId

(***************************************************************************)
(* Properties of rejected browser calls.                                   *)
(***************************************************************************)
Rejects(i) ==
    \E name \in ErrNames : EnumReject(i, name) \/ GumReject(i, name)

\* the operation's own handler has run for the rejection: the chain is
\* settled with its report made, or the fallback open has been issued
HandledBy(i, before, after) ==
    /\ after[i].pc \in {"done", "testAny", "tested"}
    /\ after[i].pc = "testAny" => before[i].pc = "test"
    /\ after[i].pc = "tested" => after[i].result = "false" /\ after[i].sent # before[i].sent
    /\ (before[i].kind = "init" /\ after[i].pc = "done") =>
           /\ Len(after[i].sent) = Len(before[i].sent) + 1
           /\ Len(after[i].shown) = Len(before[i].shown) + 1
    /\ \A j \in 1..Len(before) : j # i => after[j] = before[j]

\* C26: whenever enumerateDevices(), a getUserMedia() call (the permission
\* request or an open of testAudioDevice) or play() rejects, the handler of
\* the operation that made the call runs in the same turn and settles it:
\* no rejection is left without a handler and none reaches another operation.
C26_RejectionsHandled ==
    [][/\ \A i \in 1..MaxOps : Rejects(i) =>
              /\ Len(ops') = Len(ops)
              /\ HandledBy(i, ops, ops')
       /\ PlayRejected =>
              /\ ~els'[Head(microtasks)].inUse
              /\ els'[Head(microtasks)].safetyTimeout = NULL
              /\ UNCHANGED devVars]_vars

C26_Witness ==
    /\ last.tier = "rejected"
    /\ \E i \in 1..Len(ops) :
           /\ ops[i].kind = "init" /\ ops[i].pc = "done"
           /\ \E k \in 1..Len(ops[i].opens) : ~ops[i].opens[k].ok
    /\ \E i \in 1..Len(ops) :
           /\ ops[i].kind = "select" /\ ops[i].pc = "done"
           /\ Truthy(ops[i].req) /\ ops[i].opens = <<>> /\ ops[i].sent = <<>>

(***************************************************************************)
(* Properties of an element between its acquisition and its release.       *)
(***************************************************************************)
\* C27: a start failure is delivered only for the play that holds the
\* element: when the catch callback of a play() promise runs, the element is
\* not held by a later playSound call whose own play() is still pending.
C27_OnlyOwnPlayReleases ==
    [][PlayRejected =>
          ~(/\ els[Head(microtasks)].inUse
            /\ els[Head(microtasks)].promise = "pending")]_vars

(***************************************************************************)
(* Properties of the device id the page reports and keeps.                 *)
(***************************************************************************)
\* C28: when an initialization run sends status ready, the device id in the
\* message is the value selectedAudioDeviceId has at that moment, the id
\* updateAudioConfiguration would send (line 1338).
C28_ReadyCarriesSelected ==
    [][\A i \in 1..Len(ops) :
          (/\ IsInit(i)
           /\ Len(ops'[i].sent) = Len(ops[i].sent) + 1
           /\ ops'[i].sent[Len(ops'[i].sent)].status = "ready")
          => ops'[i].sent[Len(ops'[i].sent)].id = selectedAudioDeviceId']_vars

(***************************************************************************)
(* Properties of the bookkeeping of a pool element.                        *)
(***************************************************************************)
TimersOf(e) == {t \in timers : t.el = e}

\* C29: for every element in the pool, being in use, having a start time
\* and having exactly one safety timer armed go together: an element in use
\* has a start time and one armed timer, whose id it holds; an element not
\* in use has no start time and no armed timer.  No element has two timers.
C29_InUseStartTimeTimer ==
    /\ \A i \in 1..Len(audioPool) :
          LET e == audioPool[i]
          IN  /\ els[e].inUse <=> els[e].startTime # NULL
              /\ els[e].inUse <=> Cardinality(TimersOf(e)) = 1
              /\ els[e].inUse => \E t \in TimersOf(e) : t.id = els[e].safetyTimeout
    /\ \A e \in ElIds : Cardinality(TimersOf(e)) <= 1

\* a safety timer has just fired for an element in use and released it,
\* while another element of the pool is in use with its timer armed
C29_Witness ==
    /\ last.tier = "timeout"
    /\ last.audio # NULL
    /\ ~els[last.audio].inUse /\ TimersOf(last.audio) = {}
    /\ \E i \in 1..Len(audioPool) :
          els[audioPool[i]].inUse /\ Cardinality(TimersOf(audioPool[i])) = 1

(***************************************************************************)
(* Properties of a selection whose device cannot be opened.                *)
(***************************************************************************)
\* selectAudioDevice found its device in the enumeration and testAudioDevice
\* resolved false: the open of exactly that device and the open of any
\* device were both rejected
FailedSelect(i) ==
    /\ ops[i].kind = "select"
    /\ ops[i].cont = "select"
    /\ ops[i].result = "false"

\* C30: a selection of an enumerated device whose two opens both fail does
\* not touch selectedAudioDeviceId (it never wrote it, so the value is the
\* one it had before, or one another operation wrote) and sends no ready
\* status, neither before nor after its test settles.
C30_FailedSelectKeepsId ==
    /\ [](\A i \in 1..Len(ops) :
            FailedSelect(i) =>
                /\ Len(TestOpens(ops[i])) = 2
                /\ \A k \in 1..2 : ~TestOpens(ops[i])[k].ok
                /\ ops[i].wrote = "none"
                /\ lastWrite.op # i
                /\ ReadyCount(ops[i]) = 0)
    /\ [][\A i \in 1..Len(ops) :
             (FailedSelect(i)' /\ ops'[i] # ops[i]) => UNCHANGED selectedAudioDeviceId]_vars

\* such a selection is over while selectedAudioDeviceId holds a value that
\* another operation validated
C30_Witness ==
    \E i \in 1..Len(ops) :
        /\ FailedSelect(i)
        /\ ops[i].pc = "done"
        /\ Truthy(selectedAudioDeviceId)
        /\ selectedAudioDeviceId # ops[i].req
        /\ lastWrite.op \notin {0, i}

(***************************************************************************)
(* Properties of a selection that does not reach the test of its device.   *)
(***************************************************************************)
\* selectAudioDevice(deviceId) did not find deviceId among the enumerated
\* input devices (or has not enumerated, or was given no id)
NotFoundSelect(o) == o.kind = "select" /\ o.cont # "select"

ReadyFor(o) == Status("ready", o.req) \in Range(o.sent)

\* C31: a selection whose id is not in the enumeration it obtained never
\* assigns that id to selectedAudioDeviceId and never sends the ready status
\* naming it; a selection with an empty id returns at once: it issues no
\* browser call, sends nothing and leaves both device ids as they were.
C31_AbsentIdNotSelected ==
    /\ [](\A i \in 1..Len(ops) :
            NotFoundSelect(ops[i]) => ~ReadyFor(ops[i]) /\ ops[i].wrote # ops[i].req)
    /\ [][\A i \in 1..Len(ops') :
             (/\ NotFoundSelect(ops'[i])
              /\ lastWrite' # lastWrite
              /\ lastWrite'.op = i) => lastWrite'.val # ops'[i].req]_vars
    /\ [][selectAudioDevice("") =>
             /\ UNCHANGED <<selectedAudioDeviceId, selectedAudioInputDeviceId, lastWrite>>
             /\ ops'[Len(ops')].pc = "done"
             /\ ops'[Len(ops')].opens = <<>>
             /\ ops'[Len(ops')].sent = <<>>]_vars

(***************************************************************************)
(* Properties of the 'devicechange' listener.                              *)
(***************************************************************************)
IsUpdate(o) == o.kind = "update"

\* C32: while deviceAccessGranted is false a devicechange event does
\* nothing: updateDeviceList returns before its enumeration, so the event's
\* handling is over at once, it never opens a stream, sends a status or
\* writes a device id, and the step of the event leaves both device ids
\* and the messages of every other operation as they were.
C32_NoUpdateWithoutPermission ==
    /\ [](\A i \in 1..Len(ops) :
            (IsUpdate(ops[i]) /\ ~deviceAccessGranted) =>
                /\ ops[i].pc = "done"
                /\ ops[i].opens = <<>>
                /\ ops[i].sent = <<>>
                /\ ops[i].shown = <<>>
                /\ ops[i].wrote = "none"
                /\ lastWrite.op # i)
    /\ [][(~deviceAccessGranted /\ \E nd \in Enumerations : updateDeviceList(nd)) =>
             /\ UNCHANGED <<selectedAudioDeviceId, selectedAudioInputDeviceId, lastWrite>>
             /\ Len(ops') = Len(ops) + 1
             /\ IsUpdate(ops'[Len(ops')])
             /\ \A j \in 1..Len(ops) :
                   /\ ops'[j].sent = ops[j].sent
                   /\ ops'[j].opens = ops[j].opens
                   /\ ops'[j].pc = ops[j].pc]_vars

\* the selected device was removed after a successful initialization, the
\* event was handled, and the selected id is still the removed device
C32_Witness ==
    /\ Len(ops) = 2
    /\ ops[1].kind = "init" /\ ops[1].granted /\ ReadyCount(ops[1]) = 1
    /\ IsUpdate(ops[2]) /\ ops[2].pc = "done"
    /\ Truthy(selectedAudioDeviceId)
    /\ selectedAudioDeviceId \notin Range(devices)

(***************************************************************************)
(* Properties of the sound of an interaction.                              *)
(***************************************************************************)
IsInteraction(m) == m.type = "interactionSubscription"

\* the message reports an interaction that is alerting and was not before
EntersAlerting(m) ==
    m.state = "alerting" /\ m.old \in {"absent", "", "connected"}

PoolState(pool, e) == [i \in 1..Len(pool) |-> e[pool[i]]]

\* C34: whatever the pool's elements were doing, initializeAudioPool leaves
\* every element the pool had released (not in use, no start time, no timer
\* handle, no armed timer) and a pool of exactly MAX_AUDIO_POOL_SIZE new
\* elements, none in use and none with a timer.  A second call right after
\* the first leaves the same pool state, timers and pending callbacks.
C34_InitializeIdempotent ==
    [][initializeAudioPool =>
          /\ \A i \in 1..Len(audioPool) :
                /\ ~els'[audioPool[i]].inUse
                /\ els'[audioPool[i]].startTime = NULL
                /\ els'[audioPool[i]].safetyTimeout = NULL
                /\ \A t \in timers' : t.el # audioPool[i]
          /\ Len(audioPool') = MAX_AUDIO_POOL_SIZE
          /\ Cardinality(Range(audioPool')) = MAX_AUDIO_POOL_SIZE
          /\ Range(audioPool') \cap Range(audioPool) = {}
          /\ \A i \in 1..Len(audioPool') :
                /\ els'[audioPool'[i]] = NewAudio
                /\ \A t \in timers' : t.el # audioPool'[i]
          /\ timers' = {}
          /\ last.tier = "initialized" =>
                /\ PoolState(audioPool', els') = PoolState(audioPool, els)
                /\ timers' = timers
                /\ microtasks' = microtasks]_vars

\* the pool was initialized twice in a row, the first time with an element
\* in use whose play() had not settled
C34_Witness ==
    /\ last.tier = "initialized"
    /\ ~last.wasInUse
    /\ nEls = (MaxInits + 1) * MAX_AUDIO_POOL_SIZE
    /\ microtasks # <<>>
    /\ \A i \in 1..Len(audioPool) : els[audioPool[i]] = NewAudio

====
